---- MODULE Spec2Model ----
(***************************************************************************)
(* Sentiment chatbot: the completion gateway (OpenRouterClient.chat), the  *)
(* two sentiment extractors (analyze_sentiment and                         *)
(* analyze_conversation_sentiment), the message store (Database) and the   *)
(* /api/chat handler.                                                      *)
(*                                                                         *)
(* A model text is a sequence of lexical tokens: braces, colon, comma,     *)
(* quoted strings, number literals, null and bare commentary words.        *)
(* Scores are counted in tenths: 5 is 0.5, 10 is 1.0, 17 is 1.7.           *)
(***************************************************************************)
EXTENDS Integers, Sequences, FiniteSets, TLC

\* ------------------------------------------------------------- bounds
\* Most commentary words before, and after, the fragment of a model text.
MaxCommentary == 1
\* Most rows of the messages table.
MaxRows == 4
\* The last second of the wall clock.
MaxClock == 2

\* ------------------------------------------------------------- tokens
Tok(t, s, n) == [t |-> t, s |-> s, n |-> n]
LBrace == Tok("{", "", 0)
RBrace == Tok("}", "", 0)
Colon == Tok(":", "", 0)
Comma == Tok(",", "", 0)
Null == Tok("null", "", 0)
Str(s) == Tok("str", s, 0)
Num(n) == Tok("num", "", n)
\* digits and dots that are no number, such as 1.2.3
NumLike(s) == Tok("numlike", s, 0)
\* a bare word of commentary
Word(s) == Tok("word", s, 0)

\* ------------------------------------------------ python exceptions
NoExc == "none"
RequestExceptions == {"ConnectionError", "Timeout", "HTTPError"}
\* except <handler>: which of the modelled exception classes it catches.
Catches(handler, exc) ==
  CASE handler = "Exception" -> exc # NoExc
    [] handler = "RequestException" -> exc \in RequestExceptions
    [] handler = "JSONDecodeError" -> exc = "JSONDecodeError"
    [] OTHER -> FALSE

\* ------------------------------------------------ string primitives
\* str.find(ch): the 0-based index of the first token ch, -1 when there is none.
find(text, ch) ==
  LET hits == {i \in 1..Len(text) : text[i] = ch}
  IN IF hits = {} THEN -1
     ELSE (CHOOSE i \in hits : \A j \in hits : i <= j) - 1

\* str.rfind(ch): the 0-based index of the last token ch, -1 when there is none.
rfind(text, ch) ==
  LET hits == {i \in 1..Len(text) : text[i] = ch}
  IN IF hits = {} THEN -1
     ELSE (CHOOSE i \in hits : \A j \in hits : i >= j) - 1

\* text[a:b] for 0 <= a < b <= len(text)
Slice(text, a, b) == SubSeq(text, a + 1, b)

\* str.lower() on the strings a model text carries
lower(s) ==
  CASE s = "Positive" -> "positive"
    [] s = "SENTIMENT" -> "sentiment"
    [] OTHER -> s

\* \w+ : one or more word characters (no blank, no punctuation)
IsWordChars(s) == s \in {"positive", "negative", "neutral", "Positive", "bogus",
                         "high", "sentiment", "SENTIMENT", "score",
                         "explanation", "summary"}

\* float(v): of a python value decoded from JSON, or of a regex group
float(v) ==
  CASE v.t = "num" -> [exc |-> NoExc, n |-> v.n]
    [] v.t = "str" /\ v.s = "0.8" -> [exc |-> NoExc, n |-> 8]
    [] v.t = "str" -> [exc |-> "ValueError", n |-> 0]
    [] v.t = "numlike" -> [exc |-> "ValueError", n |-> 0]
    [] OTHER -> [exc |-> "TypeError", n |-> 0]

Max(a, b) == IF a >= b THEN a ELSE b
Min(a, b) == IF a <= b THEN a ELSE b

\* ------------------------------------------------------------- json
IsJsonValue(tok) == tok.t \in {"str", "num", "null"}

\* json.loads of a token span: an object of "key": value members separated by
\* commas. ok = FALSE stands for JSONDecodeError. pairs keeps the members in
\* order of appearance.
json_loads(toks) ==
  LET n == Len(toks)
      inner == IF n >= 2 THEN SubSeq(toks, 2, n - 1) ELSE <<>>
      m == Len(inner)
      wellFormed ==
        /\ n >= 2
        /\ toks[1] = LBrace
        /\ toks[n] = RBrace
        /\ \/ m = 0
           \/ /\ m % 4 = 3
              /\ \A i \in 1..m :
                   CASE i % 4 = 1 -> inner[i].t = "str"
                     [] i % 4 = 2 -> inner[i] = Colon
                     [] i % 4 = 3 -> IsJsonValue(inner[i])
                     [] OTHER -> inner[i] = Comma
  IN IF wellFormed
     THEN [ok |-> TRUE,
           pairs |-> [k \in 1..((m + 1) \div 4) |->
                        [key |-> inner[4 * k - 3].s, val |-> inner[4 * k - 1]]]]
     ELSE [ok |-> FALSE, pairs |-> <<>>]

\* dict.get(key, default): a repeated key keeps its last value
dict_get(pairs, key, default) ==
  LET hits == {i \in 1..Len(pairs) : pairs[i].key = key}
  IN IF hits = {} THEN default
     ELSE pairs[CHOOSE i \in hits : \A j \in hits : i >= j].val

\* ------------------------------------------------------------ regex
\* re.search: the leftmost of the positions where the pattern matches, as
\* [found, group]; the group is the third token of the match
FirstMatch(text, hits) ==
  IF hits = {} THEN [found |-> FALSE, group |-> Null]
  ELSE [found |-> TRUE,
        group |-> text[(CHOOSE i \in hits : \A j \in hits : i <= j) + 2]]

\* re.search(r'"sentiment"\s*:\s*"(\w+)"', response, re.IGNORECASE)
re_search_sentiment(text) ==
  FirstMatch(text, {i \in 1..(Len(text) - 2) :
                      /\ text[i].t = "str"
                      /\ lower(text[i].s) = "sentiment"
                      /\ text[i + 1] = Colon
                      /\ text[i + 2].t = "str"
                      /\ IsWordChars(text[i + 2].s)})

\* re.search(r'"score"\s*:\s*([\d.]+)', response): a minus sign is neither a
\* digit nor a dot, so a negative literal does not match
re_search_score(text) ==
  FirstMatch(text, {i \in 1..(Len(text) - 2) :
                      /\ text[i] = Str("score")
                      /\ text[i + 1] = Colon
                      /\ \/ text[i + 2].t = "num" /\ text[i + 2].n >= 0
                         \/ text[i + 2].t = "numlike"})

\* re.search(r'"summary"\s*:\s*"([^"]+)"', response)
re_search_summary(text) ==
  FirstMatch(text, {i \in 1..(Len(text) - 2) :
                      /\ text[i] = Str("summary")
                      /\ text[i + 1] = Colon
                      /\ text[i + 2].t = "str"
                      /\ text[i + 2].s # ""})

\* ---------------------------------------------------------- gateway
\* "I'm sorry, I encountered an error processing your request."
DegradedText == <<Word("I'm"), Word("sorry"), Comma, Word("I"),
                  Word("encountered"), Word("an"), Word("error"),
                  Word("processing"), Word("your"), Word("request.")>>

\* What a function call yields: an exception that leaves it, or a value
\* (None, or a text).
Raised(e) == [exc |-> e, none |-> FALSE, text |-> <<>>]
Returned(text) == [exc |-> NoExc, none |-> FALSE, text |-> text]
ReturnedNone == [exc |-> NoExc, none |-> TRUE, text |-> <<>>]

\* OpenRouterClient.chat on one HTTP exchange x:
\*   x.http      "ok", or the RequestException requests.post / raise_for_status raises
\*   x.envelope  the shape of the 200 body: "content", "null_content",
\*               "no_choices", "empty_choices"
\*   x.content   the text of choices[0].message.content
chat(x) ==
  LET tried ==
        IF x.http # "ok" THEN Raised(x.http)
        ELSE CASE x.envelope = "no_choices" -> Raised("KeyError")
               [] x.envelope = "empty_choices" -> Raised("IndexError")
               [] x.envelope = "null_content" -> ReturnedNone
               [] OTHER -> Returned(x.content)
  IN IF Catches("RequestException", tried.exc) THEN Returned(DegradedText)
     ELSE tried

\* -------------------------------------------------------- extractors
Labels == {"positive", "negative", "neutral"}

Result(sentiment, score, detail, path) ==
  [exc |-> NoExc, sentiment |-> sentiment, score |-> score, detail |-> detail,
   path |-> path]
Failure(e) ==
  [exc |-> e, sentiment |-> "", score |-> 0, detail |-> Null, path |-> "raise"]

DetailKey(mode) == IF mode = "single" THEN "explanation" ELSE "summary"
\* result.get("explanation", "") / result.get("summary", "Overall conversation analysis")
JsonDefaultDetail(mode) ==
  IF mode = "single" THEN "" ELSE "Overall conversation analysis"
RegexDefaultDetail(mode) ==
  IF mode = "single" THEN "Analyzed from response" ELSE "Conversation analyzed"

\* Method 1 without the check of the label against the three valid ones.
Method1Unvalidated(mode, result) ==
  LET label == dict_get(result, "sentiment", Str("neutral"))
      score == float(dict_get(result, "score", Num(5)))
      detail == dict_get(result, DetailKey(mode), Str(JsonDefaultDetail(mode)))
  IN IF label.t # "str" THEN Failure("AttributeError")
     ELSE IF score.exc # NoExc THEN Failure(score.exc)
     ELSE Result(lower(label.s), score.n, detail, "json")

\* Method 1 after json.loads succeeded: result is the parsed object.
Method1(mode, result) ==
  LET label == dict_get(result, "sentiment", Str("neutral"))
      sentiment == lower(label.s)
      score == float(dict_get(result, "score", Num(5)))
      detail == dict_get(result, DetailKey(mode), Str(JsonDefaultDetail(mode)))
  IN IF label.t # "str" THEN Failure("AttributeError")
     ELSE IF score.exc # NoExc THEN Failure(score.exc)
     ELSE Result(IF sentiment \notin Labels THEN "neutral" ELSE sentiment,
                 score.n, detail, "json")

\* if sentiment == "neutral" and score != 0.5: ...
InferFromScore(sentiment, score) ==
  IF sentiment = "neutral" /\ score # 5
  THEN IF score > 6 THEN "positive"
       ELSE IF score < 4 THEN "negative" ELSE sentiment
  ELSE sentiment

\* Method 2: regex extraction, then inference from the score.
Method2(mode, response) ==
  LET sentiment_match == re_search_sentiment(response)
      score_match == re_search_score(response)
      summary_match == re_search_summary(response)
      sent == lower(sentiment_match.group.s)
      sentiment == IF sentiment_match.found /\ sent \in Labels
                   THEN sent ELSE "neutral"
      parsed == float(score_match.group)
      \* except ValueError: both extractors are left with 0.5
      score == IF score_match.found /\ parsed.exc = NoExc
               THEN Max(0, Min(10, parsed.n)) ELSE 5
      detail == IF mode = "conversation" /\ summary_match.found
                THEN summary_match.group
                ELSE Str(RegexDefaultDetail(mode))
  IN Result(InferFromScore(sentiment, score), score, detail, "regex")

\* The try block with end_idx = response.rfind('}'), one short of the brace.
TryBlockShortSpan(mode, got) ==
  IF got.exc # NoExc THEN Failure(got.exc)
  ELSE IF got.none THEN Failure("AttributeError")
  ELSE LET response == got.text
           start_idx == find(response, LBrace)
           end_idx == rfind(response, RBrace)
           parsed == IF start_idx # -1 /\ end_idx > start_idx
                     THEN json_loads(Slice(response, start_idx, end_idx))
                     ELSE [ok |-> FALSE, pairs |-> <<>>]
       IN IF parsed.ok THEN Method1(mode, parsed.pairs)
          ELSE Method2(mode, response)

\* The body of the try block, given what self.chat gave.
TryBlock(mode, got) ==
  IF got.exc # NoExc THEN Failure(got.exc)
  ELSE IF got.none THEN Failure("AttributeError")
  ELSE LET response == got.text
           start_idx == find(response, LBrace)
           end_idx == rfind(response, RBrace) + 1
           parsed == IF start_idx # -1 /\ end_idx > start_idx
                     THEN json_loads(Slice(response, start_idx, end_idx))
                     ELSE [ok |-> FALSE, pairs |-> <<>>]
       IN IF parsed.ok THEN Method1(mode, parsed.pairs)
          ELSE Method2(mode, response)

\* The analysis with "except ValueError" in place of "except Exception".
AnalysisCatchesValueError(mode, wire) ==
  LET body == TryBlock(mode, chat(wire[1]))
  IN [out |-> IF body.exc = "ValueError"
              THEN Result("neutral", 5, Str("Error in analysis"), "error")
              ELSE body,
      calls |-> 1]

\* The analysis sending a second request when the first gave the
\* degraded-service sentence.
AnalysisRetry(mode, wire) ==
  LET first == chat(wire[1])
      again == first = Returned(DegradedText)
      body == TryBlock(mode, IF again THEN chat(wire[2]) ELSE first)
  IN [out |-> IF Catches("Exception", body.exc)
              THEN Result("neutral", 5, Str("Error in analysis"), "error")
              ELSE body,
      calls |-> IF again THEN 2 ELSE 1]

\* try: ... except Exception: return the fixed error record.
\* wire is what the provider would answer to successive HTTP requests; the
\* analysis sends one request, so it consumes wire[1] alone.
Analysis(mode, wire) ==
  LET body == TryBlock(mode, chat(wire[1]))
  IN [out |-> IF Catches("Exception", body.exc)
              THEN Result("neutral", 5, Str("Error in analysis"), "error")
              ELSE body,
      calls |-> 1]

analyze_sentiment(wire) == Analysis("single", wire)
analyze_conversation_sentiment(wire) == Analysis("conversation", wire)

\* ------------------------------------------------------ model texts
Words(k) == [i \in 1..k |-> Word("note")]
Field(key, val) == <<Str(key), Colon, val>>
Optional(S) == {<<>>} \cup S

SentimentFields ==
  {Field(k, v) : k \in {"sentiment", "SENTIMENT"},
                 v \in {Str("positive"), Str("negative"), Str("neutral"),
                        Str("Positive"), Str("bogus"), Null, Num(9)}}
ScoreFields ==
  {Field("score", v) : v \in {Num(-3), Num(0), Num(3), Num(4), Num(5), Num(6),
                              Num(9), Num(10), Num(17),
                              Str("0.8"), Str("high"), Null, NumLike("1.2.3")}}
DetailFields ==
  {Field(k, v) : k \in {"explanation", "summary"}, v \in {Str("Good mood"), Str(""), Null}}

\* fields joined by sep (a comma, or nothing: a malformed object)
Join(a, b, sep) == IF a = <<>> \/ b = <<>> THEN a \o b ELSE a \o sep \o b

\* commentary, an opening brace or none, up to three fields, a closing brace
\* or none, commentary, and a stray closing brace or none
RawTexts ==
  {Words(pre) \o open \o Join(Join(f1, f2, sep), f3, sep) \o close
     \o Words(post) \o stray :
     pre \in 0..MaxCommentary, post \in 0..MaxCommentary,
     open \in Optional({<<LBrace>>}), close \in Optional({<<RBrace>>}),
     stray \in Optional({<<RBrace>>}), sep \in Optional({<<Comma>>}),
     f1 \in Optional(SentimentFields), f2 \in Optional(ScoreFields),
     f3 \in Optional(DetailFields)}

Exchange(http, envelope, content) ==
  [http |-> http, envelope |-> envelope, content |-> content]
Exchanges ==
  {Exchange(h, "content", <<>>) : h \in RequestExceptions}
    \cup {Exchange("ok", e, <<>>) : e \in {"no_choices", "empty_choices", "null_content"}}
    \cup {Exchange("ok", "content", t) : t \in RawTexts}
\* what a second request would be answered, had the analysis sent one
SecondExchanges ==
  {Exchange("Timeout", "content", <<>>),
   Exchange("ok", "content",
            <<LBrace>> \o Field("sentiment", Str("positive")) \o <<Comma>>
              \o Field("score", Num(9)) \o <<RBrace>>)}
Wires == {<<x, y>> : x \in Exchanges, y \in SecondExchanges}

\* ------------------------------------------------------- database
ConversationIds == {1, 2}

\* A row of the messages table: id is the AUTOINCREMENT key, created_at the
\* CURRENT_TIMESTAMP default (whole seconds). The text columns are left out.
Row(id, conversation_id, role, created_at) ==
  [id |-> id, conversation_id |-> conversation_id, role |-> role,
   created_at |-> created_at]

\* INSERT INTO messages (...) VALUES (...), at second now
add_message(table, conversation_id, role, now) ==
  Append(table, Row(Len(table) + 1, conversation_id, role, now))

\* SELECT ... WHERE conversation_id = ? ORDER BY created_at ASC: every order
\* of the selected ids that the ORDER BY clause allows. Rows of equal
\* created_at come in an order the statement does not fix.
get_conversation_messages(table, conversation_id) ==
  LET sel == {i \in 1..Len(table) : table[i].conversation_id = conversation_id}
      n == Cardinality(sel)
  IN {ids \in [1..n -> sel] :
        /\ \A a, b \in 1..n : a # b => ids[a] # ids[b]
        /\ \A a \in 1..n : \A b \in (a + 1)..n :
             table[ids[a]].created_at <= table[ids[b]].created_at}

\* ---------------------------------------------------- chat endpoint
\* The exchanges the /api/chat handler is driven with.
SampleTexts ==
  {<<Word("hello")>>,
   <<LBrace>> \o Field("sentiment", Str("positive")) \o <<Comma>>
     \o Field("score", Num(9)) \o <<Comma>>
     \o Field("explanation", Str("Good mood")) \o <<RBrace>>,
   <<LBrace>> \o Field("sentiment", Str("negative")) \o <<Comma>>
     \o Field("explanation", Null) \o <<RBrace>>}
SampleExchanges ==
  {Exchange("Timeout", "content", <<>>), Exchange("HTTPError", "content", <<>>)}
    \cup {Exchange("ok", e, <<>>) : e \in {"no_choices", "empty_choices", "null_content"}}
    \cup {Exchange("ok", "content", t) : t \in SampleTexts}

\* What an operation gave its caller.
Outcome(op, status, ids, bot, analysis) ==
  [op |-> op, status |-> status, ids |-> ids, bot |-> bot, analysis |-> analysis]
NoOutcome == Outcome("none", "", <<>>, Returned(<<>>), Failure(NoExc))

\* ------------------------------------------------------------ state
VARIABLES
  phase,    \* "idle", or "done" once an analysis has returned
  mode,     \* "single" or "conversation"
  wire,     \* the provider's answers to the analysis
  result,   \* what the analysis returned: [out, calls]
  rows,     \* the messages table, in insertion order
  clock,    \* the wall clock, in seconds
  returned  \* what the last database or endpoint operation gave its caller

vars == <<phase, mode, wire, result, rows, clock, returned>>
extractorVars == <<phase, mode, wire, result>>
storeVars == <<rows, clock, returned>>

NoResult == [out |-> Failure(NoExc), calls |-> 0]

Init ==
  /\ phase = "idle"
  /\ mode = "single"
  /\ wire = <<>>
  /\ result = NoResult
  /\ rows = <<>>
  /\ clock = 0
  /\ returned = NoOutcome

AnalyzeSentiment ==
  /\ phase = "idle"
  /\ \E w \in Wires :
       /\ phase' = "done"
       /\ mode' = "single"
       /\ wire' = w
       /\ result' = analyze_sentiment(w)
  /\ UNCHANGED storeVars

AnalyzeConversationSentiment ==
  /\ phase = "idle"
  /\ \E w \in Wires :
       /\ phase' = "done"
       /\ mode' = "conversation"
       /\ wire' = w
       /\ result' = analyze_conversation_sentiment(w)
  /\ UNCHANGED storeVars

Next ==
  \/ AnalyzeSentiment
  \/ AnalyzeConversationSentiment

Spec == Init /\ [][Next]_vars

\* A second passes.
Tick ==
  /\ clock < MaxClock
  /\ clock' = clock + 1
  /\ UNCHANGED <<rows, returned>>
  /\ UNCHANGED extractorVars

\* Database.add_message, called on its own
AddMessage ==
  /\ Len(rows) < MaxRows
  /\ \E c \in ConversationIds, role \in {"user", "assistant"} :
       rows' = add_message(rows, c, role, clock)
  /\ returned' = Outcome("add", "", <<>>, Returned(<<>>), Failure(NoExc))
  /\ UNCHANGED clock
  /\ UNCHANGED extractorVars

\* Database.get_conversation_messages, called on its own
GetConversationMessages ==
  /\ \E c \in ConversationIds :
       \E ids \in get_conversation_messages(rows, c) :
         returned' = Outcome("get", "", ids, Returned(<<>>), Failure(NoExc))
  /\ UNCHANGED <<rows, clock>>
  /\ UNCHANGED extractorVars

\* POST /api/chat: read the history, analyse the user message, store it, ask
\* the gateway for the reply, store the reply, answer. The gateway call takes
\* d seconds. An exception that leaves openrouter.chat, a None reply (content
\* is NOT NULL) and a response that fails ChatResponse's validation
\* (explanation: str) end the request with status 500.
ChatRequest ==
  /\ Len(rows) + 2 <= MaxRows
  /\ \E c \in ConversationIds, x1 \in SampleExchanges, x2 \in SampleExchanges,
        d \in 0..(MaxClock - clock) :
       \E history \in get_conversation_messages(rows, c) :
         LET sentiment_result == analyze_sentiment(<<x1, x1>>).out
             withUser == add_message(rows, c, "user", clock)
             bot_response == chat(x2)
             stored == bot_response.exc = NoExc /\ ~bot_response.none
             valid == sentiment_result.detail.t = "str"
         IN /\ rows' = IF stored
                       THEN add_message(withUser, c, "assistant", clock + d)
                       ELSE withUser
            /\ clock' = clock + d
            /\ returned' = Outcome("chat",
                                   IF stored /\ valid THEN "200" ELSE "500",
                                   history, bot_response, sentiment_result)
  /\ UNCHANGED extractorVars

StoreNext ==
  \/ Tick
  \/ AddMessage
  \/ GetConversationMessages
  \/ ChatRequest

StoreSpec == Init /\ [][StoreNext]_vars

\* =========================================================== claims
\* What the claims speak of: the text the first exchange carried, its span
\* from the first '{' to the last '}', and that span parsed as JSON.
Delivered(x) == x.http = "ok" /\ x.envelope = "content"
SpanOf(text) ==
  LET a == find(text, LBrace)
      b == rfind(text, RBrace) + 1
  IN IF a # -1 /\ b > a THEN Slice(text, a, b) ELSE <<>>
ParsedOf(x) ==
  IF Delivered(x) THEN json_loads(SpanOf(x.content))
  ELSE [ok |-> FALSE, pairs |-> <<>>]
Absent == Tok("absent", "", 0)
\* The object {"sentiment": S, "score": N, "explanation": E} as tokens.
CanonicalObject(S, N, E) ==
  <<LBrace>> \o Field("sentiment", Str(S)) \o <<Comma>> \o Field("score", Num(N))
    \o <<Comma>> \o Field("explanation", E) \o <<RBrace>>
Done == phase = "done"

\* C1: every analysis, in either mode, returns a result record; no exception
\* leaves it, whatever the model text is and also when the gateway call raises.
ExtractionIsTotal ==
  Done => result.out.exc = NoExc /\ result.out.path \in {"json", "regex", "error"}

\* C1 witness: the gateway call raised (a 200 body without choices) and the
\* analysis returned the error record.
GatewayRaisedAndAnalysisReturned ==
  /\ Done
  /\ wire[1].http = "ok"
  /\ wire[1].envelope = "no_choices"
  /\ result.out = Result("neutral", 5, Str("Error in analysis"), "error")

\* C2 (as claimed): every returned score lies in [0.0, 1.0], on every path.
ScoreWithinUnitInterval ==
  Done => result.out.score >= 0 /\ result.out.score <= 10

\* C3: every returned sentiment is one of positive, negative, neutral; a label
\* in another case read from the parsed JSON is returned lower-cased.
SentimentIsValidLabel ==
  Done =>
    /\ result.out.sentiment \in Labels
    /\ (/\ result.out.path = "json"
        /\ dict_get(ParsedOf(wire[1]).pairs, "sentiment", Absent) = Str("Positive"))
       => result.out.sentiment = "positive"

\* C3 witness: the parsed JSON carried the unknown label "bogus" and the
\* result, from the JSON path, is neutral.
UnknownLabelCoerced ==
  /\ Done
  /\ ParsedOf(wire[1]).ok
  /\ dict_get(ParsedOf(wire[1]).pairs, "sentiment", Absent) = Str("bogus")
  /\ result.out.path = "json"
  /\ result.out.sentiment = "neutral"

\* C4 (as claimed): the detail of every result is a string, never null; when the
\* parsed JSON has no detail field or a null one, the result carries the
\* mode's fallback string.
DetailIsAlwaysString ==
  Done =>
    /\ result.out.detail.t = "str"
    /\ (/\ ParsedOf(wire[1]).ok
        /\ result.out.path = "json"
        /\ dict_get(ParsedOf(wire[1]).pairs, DetailKey(mode), Absent) \in {Absent, Null})
       => result.out.detail = Str(JsonDefaultDetail(mode))

\* C5 (as claimed): no result is neutral with a score above 0.6 or below 0.4,
\* also when the fields came from a successful JSON parse.
NeutralOnlyNearMidpoint ==
  Done => ~(result.out.sentiment = "neutral"
            /\ (result.out.score > 6 \/ result.out.score < 4))

\* C6: when the span from the first '{' to the last '}' is the object
\* {"sentiment": S, "score": N, "explanation": E}, S a valid label and N in
\* [0,1], analyze_sentiment returns exactly S, N and E from the JSON path,
\* with or without commentary around the span.
ValidJsonReturnedExactly ==
  (Done /\ mode = "single" /\ Delivered(wire[1])) =>
    LET span == SpanOf(wire[1].content)
        S == span[4]
        N == span[8]
        E == span[12]
    IN (/\ Len(span) = 13
        /\ S.t = "str" /\ S.s \in Labels
        /\ N.t = "num" /\ N.n >= 0 /\ N.n <= 10
        /\ E.t = "str"
        /\ span = CanonicalObject(S.s, N.n, E))
       => result.out = Result(S.s, N.n, E, "json")

\* C6 witness: scenario A, the object between commentary words.
ValidJsonAmidCommentary ==
  /\ Done
  /\ mode = "single"
  /\ Delivered(wire[1])
  /\ SpanOf(wire[1].content) = CanonicalObject("positive", 9, Str("Good mood"))
  /\ wire[1].content[1].t = "word"
  /\ wire[1].content[Len(wire[1].content)].t = "word"
  /\ result.out = Result("positive", 9, Str("Good mood"), "json")

\* C8: when the gateway call of an analysis fails at transport level, the
\* analysis makes exactly one gateway call and returns neutral, 0.5 and the
\* mode's fallback detail, from the pattern path with nothing matched.
TransportFailureDegradesToDefaults ==
  (Done /\ wire[1].http \in RequestExceptions) =>
    /\ result.calls = 1
    /\ result.out = Result("neutral", 5, Str(RegexDefaultDetail(mode)), "regex")

\* C8 witness: a timeout during a conversation analysis.
TimeoutInConversationMode ==
  /\ Done
  /\ mode = "conversation"
  /\ wire[1].http = "Timeout"
  /\ result.calls = 1
  /\ result.out.detail = Str("Conversation analyzed")

\* C10 (as claimed): when the span parses as JSON with a valid label S and the
\* score field is absent, a non-number string or null, the result is S, 0.5 and
\* the text's own detail, from the JSON path.
NonNumericScoreOnlyDefaultsScore ==
  LET pairs == ParsedOf(wire[1]).pairs
      label == dict_get(pairs, "sentiment", Absent)
  IN (/\ Done
      /\ ParsedOf(wire[1]).ok
      /\ label.t = "str"
      /\ label.s \in Labels
      /\ dict_get(pairs, "score", Absent) \in {Absent, Str("high"), Null})
     => /\ result.out.path = "json"
        /\ result.out.sentiment = label.s
        /\ result.out.score = 5
        /\ result.out.detail
             = dict_get(pairs, DetailKey(mode), Str(JsonDefaultDetail(mode)))

\* C7 (as claimed): chat() never raises to its caller, so the chat endpoint
\* always receives a string for the bot reply.
ChatNeverRaises ==
  returned.op = "chat" => returned.bot.exc = NoExc /\ ~returned.bot.none

====
